---- MODULE Spec2Model ----
(***************************************************************************)
(* A model of checker.py: the URI normalizers (parse_vless, parse_vmess,   *)
(* parse_trojan, parse_shadowsocks), the renderer config_to_json, the      *)
(* trial runner test_config with its ledger access, and the batch          *)
(* orchestration of test_config_batch and main.                            *)
(*                                                                         *)
(* A raw string is a sequence of tokens.  A token is a short piece of text *)
(* ("vless://", "@", ":", "h", "8", ...); the parsers only look for the    *)
(* delimiters the code looks for, so a token stands for the characters it  *)
(* spells.  A base64 payload is one token, decoded through a code book.    *)
(***************************************************************************)
EXTENDS Integers, Sequences, FiniteSets, TLC

\* ------------------------------------------------------------- bounds

MaxBody == 3
MaxPayload == 2
MaxConfigs == 2

VARIABLES
    configs,      \* main: the endpoint list
    batch_size,   \* main: args.batch
    start_port,   \* main: args.port
    main_pc,      \* main: where the coroutine stands
    batch_num,    \* main: the loop variable
    tasks,        \* one record per endpoint: the task running test_config on it
    running,      \* the operating system's live child processes
    files,        \* the files config_to_json and test_config created
    ledger,       \* working_configs.txt, line by line
    ledger0,      \* working_configs.txt as the run found it
    all_results,  \* main: all_results
    summary,      \* main: the final summary, once printed
    raw,          \* a normalizer's input
    parsed,       \* what the normalizer returned or raised
    doc           \* what config_to_json returned or raised

vars == <<configs, batch_size, start_port, main_pc, batch_num, tasks, running,
          files, ledger, ledger0, all_results, summary, raw, parsed, doc>>

runVars == <<configs, batch_size, start_port, main_pc, batch_num, tasks, running,
             files, ledger, ledger0, all_results, summary>>

parseVars == <<raw, parsed, doc>>

\* ------------------------------------------------------------- tokens

Schemes == {"vless://", "vmess://", "trojan://", "ss://"}

\* Tokens of the URL dialects.  "8" is a decimal digit, "99999" a run of five
\* digits, "?security=tls" opens the query and "#n" the fragment, " " is a
\* blank.
UrlTokens == {"@", ":", "h", "8", "x", "99999", "?security=tls", "#n", " "}

\* Payload tokens: base64 text, named by what it decodes to.
VmessTokens ==
    {"b64:{}", "b64:{add:h,port:8,tls:tls}", "b64:{tls:TLS}", "b64:{tls:true}",
     "b64:{port:'8'}", "b64:{port:'x'}", "b64:{port:null}", "b64:{aid:'x'}",
     "b64:[1]", "x"}

SsTokens ==
    {"@", ":", "h", "8", "x", "b64:m:p", "b64:mp", "b64:m:p@h:8", "b64:m:p@hh:88"}

Digits == {"8", "99999"}
Blank == {" ", "\n"}

\* ------------------------------------------------------------ sequences

\* The least index of s holding a token of set T, 0 when there is none.
FirstIn(s, T) ==
    IF \E i \in 1..Len(s) : s[i] \in T
    THEN CHOOSE i \in 1..Len(s) : s[i] \in T /\ \A j \in 1..(i - 1) : s[j] \notin T
    ELSE 0

\* The greatest index of s holding a token of set T, 0 when there is none.
LastIn(s, T) ==
    IF \E i \in 1..Len(s) : s[i] \in T
    THEN CHOOSE i \in 1..Len(s) : s[i] \in T /\ \A j \in (i + 1)..Len(s) : s[j] \notin T
    ELSE 0

Before(s, i) == SubSeq(s, 1, i - 1)
After(s, i) == SubSeq(s, i + 1, Len(s))

\* str.replace(tok, ""): every occurrence of the token is removed.
Remove(s, tok) == SelectSeq(s, LAMBDA t : t # tok)

\* str.startswith(tok)
StartsWith(s, tok) == Len(s) >= 1 /\ s[1] = tok

\* str.strip(): leading and trailing blanks are removed.
RECURSIVE strip(_)
strip(s) ==
    IF Len(s) = 0 THEN s
    ELSE IF s[1] \in Blank THEN strip(Tail(s))
    ELSE IF s[Len(s)] \in Blank THEN strip(SubSeq(s, 1, Len(s) - 1))
    ELSE s

\* ---------------------------------------------------------- exceptions

Raise(e) == [exc |-> e]
IsRaise(r) == "exc" \in DOMAIN r

\* ------------------------------------------------------------ ConfigData

ConfigData(t) ==
    [type |-> t, server |-> <<>>, port |-> 443, uuid |-> <<>>, tls |-> <<"tls">>,
     network |-> <<"tcp">>, security |-> <<"none">>, aid |-> 0,
     method |-> <<"auto">>, password |-> <<>>]

\* ------------------------------------------------------------- urlparse

\* s up to the token at index i, all of s when i is 0.
Upto(s, i) == IF i = 0 THEN s ELSE Before(s, i)

\* s from the token at index i on, nothing when i is 0.
From(s, i) == IF i = 0 THEN <<>> ELSE SubSeq(s, i, Len(s))

\* s after the token at index i, nothing when i is 0.
Past(s, i) == IF i = 0 THEN <<>> ELSE After(s, i)

\* urlparse("https://" + server_info): the fragment starts at the first '#',
\* the query at the first '?' before it, the authority is what precedes them.
UrlNoFragment(si) == Upto(si, FirstIn(si, {"#n"}))

UrlQuery(si) ==
    LET Cut(pre) == From(pre, FirstIn(pre, {"?security=tls"}))
    IN Cut(UrlNoFragment(si))

UrlNetloc(si) ==
    LET Cut(pre) == Upto(pre, FirstIn(pre, {"?security=tls"}))
    IN Cut(UrlNoFragment(si))

\* _hostinfo: what follows the last '@' of the authority, cut at its first ':'.
UrlHostinfo(si) ==
    LET Cut(netloc) == After(netloc, LastIn(netloc, {"@"}))
    IN Cut(UrlNetloc(si))

UrlHostname(si) ==
    LET Cut(hi) == Upto(hi, FirstIn(hi, {":"}))
    IN Cut(UrlHostinfo(si))

UrlPortText(si) ==
    LET Cut(hi) == Past(hi, FirstIn(hi, {":"}))
    IN Cut(UrlHostinfo(si))

IsDigits(s) == Len(s) > 0 /\ \A i \in 1..Len(s) : s[i] \in Digits

\* int() of a run of digits; Python's integers are unbounded, and every value
\* above 65535 is kept as 65536.
RECURSIVE DigitsValue(_)
DigitsValue(s) ==
    LET Shift(p, d) == IF d # "8" \/ p > 6552 THEN 65536 ELSE p * 10 + 8
    IN IF Len(s) = 0 THEN 0
       ELSE Shift(DigitsValue(SubSeq(s, 1, Len(s) - 1)), s[Len(s)])

\* ParseResult.port: None (modelled as 0 with "absent") when there is no port
\* text, ValueError when the text is not all digits or is above 65535.
UrlPort(si) ==
    LET Ranged(n) == IF n > 65535 THEN Raise("ValueError")
                     ELSE [absent |-> FALSE, n |-> n]
        Value(pt) == IF pt = <<>> THEN [absent |-> TRUE, n |-> 0]
                     ELSE IF ~IsDigits(pt) THEN Raise("ValueError")
                     ELSE Ranged(DigitsValue(pt))
    IN Value(UrlPortText(si))

\* int(parsed.port or 443): None and 0 are both falsy.
PortOr443(p) == IF p.absent \/ p.n = 0 THEN 443 ELSE p.n

\* parse_qs(parsed.query)["security"][0]: the text after "security=" up to the
\* end of the query.
QuerySecurity(q) == <<"tls">> \o Tail(q)

\* ----------------------------------------------------------- parse_vless

parse_vless(url0) ==
    LET Fill(base, port, query) ==
            IF IsRaise(port) THEN port
            ELSE [base EXCEPT
                    !.port = PortOr443(port),
                    !.security = IF query # <<>> THEN QuerySecurity(query) ELSE @]
        Parts(user_info, server_info) ==
            Fill([ConfigData("vless") EXCEPT
                    !.uuid = user_info,
                    !.server = UrlHostname(server_info)],
                 UrlPort(server_info), UrlQuery(server_info))
        Split(url, at) ==
            IF at = 0 THEN ConfigData("vless")
            ELSE Parts(Before(url, at), After(url, at))
        Body(url) == Split(url, FirstIn(url, {"@"}))
    IN Body(Remove(url0, "vless://"))

\* ---------------------------------------------------------- parse_trojan

parse_trojan(url0) ==
    LET Fill(base, port, query) ==
            IF IsRaise(port) THEN port
            ELSE [base EXCEPT
                    !.port = PortOr443(port),
                    !.security = IF query # <<>> THEN QuerySecurity(query) ELSE @]
        Parts(password, server_info) ==
            Fill([ConfigData("trojan") EXCEPT
                    !.password = password,
                    !.server = UrlHostname(server_info)],
                 UrlPort(server_info), UrlQuery(server_info))
        Split(url, at) ==
            IF at = 0 THEN ConfigData("trojan")
            ELSE Parts(Before(url, at), After(url, at))
        Body(url) == Split(url, FirstIn(url, {"@"}))
    IN IF ~StartsWith(url0, "trojan://") THEN ConfigData("trojan")
       ELSE Body(Remove(url0, "trojan://"))

\* ----------------------------------------------------------- parse_vmess

\* JSON values.
JStr(s) == [t |-> "str", s |-> s]
JInt(n) == [t |-> "int", n |-> n]
JNull == [t |-> "null"]
JBool(b) == [t |-> "bool", b |-> b]
JObject(m) == [t |-> "object", m |-> m]
JArray == [t |-> "array"]
EmptyObject == JObject(<<>>)

\* base64.b64decode followed by json.loads, on one payload token.
B64Json(tok) ==
    CASE tok = "b64:{}" -> EmptyObject
      [] tok = "b64:{add:h,port:8,tls:tls}" ->
            JObject([add |-> JStr(<<"h">>), port |-> JInt(8), tls |-> JStr(<<"tls">>)])
      [] tok = "b64:{tls:TLS}" -> JObject([tls |-> JStr(<<"TLS">>)])
      [] tok = "b64:{tls:true}" -> JObject([tls |-> JBool(TRUE)])
      [] tok = "b64:{port:'8'}" -> JObject([port |-> JStr(<<"8">>)])
      [] tok = "b64:{port:'x'}" -> JObject([port |-> JStr(<<"x">>)])
      [] tok = "b64:{port:null}" -> JObject([port |-> JNull])
      [] tok = "b64:{aid:'x'}" -> JObject([aid |-> JStr(<<"x">>)])
      [] tok = "b64:[1]" -> JArray
      [] OTHER -> Raise("JSONDecodeError")

\* decode_vmess_base64: the prefix is cut, and any failure gives {}.
decode_vmess_base64(vmess_str0) ==
    LET Loaded(decoded) == IF IsRaise(decoded) THEN EmptyObject ELSE decoded
        Decoded(vmess_str) ==
            Loaded(IF Len(vmess_str) = 1 THEN B64Json(vmess_str[1])
                   ELSE Raise("JSONDecodeError"))
    IN Decoded(IF StartsWith(vmess_str0, "vmess://") THEN Tail(vmess_str0)
               ELSE vmess_str0)

\* dict.get(key, default)
Get(d, k, default) == IF k \in DOMAIN d THEN d[k] ELSE default

\* int(x) of a JSON value.
PyInt(v) ==
    CASE v.t = "int" -> [n |-> v.n]
      [] v.t = "bool" -> [n |-> IF v.b THEN 1 ELSE 0]
      [] v.t = "str" -> IF IsDigits(v.s) THEN [n |-> DigitsValue(v.s)]
                        ELSE Raise("ValueError")
      [] OTHER -> Raise("TypeError")

VmessTls(vmess_data) ==
    IF Get(vmess_data, "tls", JNull) = JStr(<<"tls">>) THEN <<"tls">> ELSE <<"none">>

parse_vmess(url) ==
    LET Fill(d, port, aid) ==
            IF IsRaise(port) THEN port
            ELSE IF IsRaise(aid) THEN aid
            ELSE [ConfigData("vmess") EXCEPT
                    !.server = Get(d, "add", JStr(<<>>)).s,
                    !.port = port.n,
                    !.aid = aid.n,
                    !.tls = VmessTls(d)]
        Fields(d) == Fill(d, PyInt(Get(d, "port", JInt(443))),
                          PyInt(Get(d, "aid", JInt(0))))
        Body(vmess_data) ==
            IF vmess_data.t # "object" THEN Raise("AttributeError")
            ELSE Fields(vmess_data.m)
    IN IF ~StartsWith(url, "vmess://") THEN ConfigData("vmess")
       ELSE Body(decode_vmess_base64(url))

\* ----------------------------------------------------- parse_shadowsocks

\* Payload tokens whose base64 text is not a whole number of 4-character
\* groups: what follows them in the same base64 text changes their decoding.
Unaligned == {"b64:mp", "b64:m:p@h:8"}

\* The number of characters a token spells.
CharLen(tok) ==
    CASE tok = "b64:m:p" -> 4
      [] tok = "b64:mp" -> 3
      [] tok = "b64:m:p@h:8" -> 10
      [] tok = "b64:m:p@hh:88" -> 12
      [] OTHER -> 1

RECURSIVE TextLen(_)
TextLen(s) == IF Len(s) = 0 THEN 0 ELSE CharLen(Head(s)) + TextLen(Tail(s))

\* "=" * (-len(s) % 4)
Padding(s) == (4 - (TextLen(s) % 4)) % 4

\* base64.b64decode(...).decode() of base64 text followed by pad '=' signs:
\* "b64:m:p" and "b64:m:p@hh:88" are whole groups, so the text after them is
\* decoded on its own; an unaligned payload needs its padding; the plain
\* tokens decode to bytes that are not UTF-8.
RECURSIVE B64Groups(_, _)
B64Groups(s, pad) ==
    LET Joined(t, r) == IF IsRaise(r) THEN r ELSE [text |-> t \o r.text]
    IN IF Len(s) = 0 THEN [text |-> <<>>]
       ELSE IF Head(s) = "b64:m:p"
       THEN Joined(<<"m", ":", "p">>, B64Groups(Tail(s), pad))
       ELSE IF Head(s) = "b64:m:p@hh:88"
       THEN Joined(<<"m", ":", "p", "@", "h", "h", ":", "8", "8">>,
                   B64Groups(Tail(s), pad))
       ELSE IF Len(s) > 1 THEN Raise("binascii.Error")
       ELSE CASE s[1] = "b64:mp" ->
                   IF pad >= 1 THEN [text |-> <<"mp">>] ELSE Raise("binascii.Error")
              [] s[1] = "b64:m:p@h:8" ->
                   IF pad >= 2 THEN [text |-> <<"m", ":", "p", "@", "h", ":", "8">>]
                   ELSE Raise("binascii.Error")
              [] OTHER -> Raise("UnicodeDecodeError")

\* b64decode pads the text as given and discards the characters that are not
\* of the base64 alphabet (':' and '@').
B64Text(s) == B64Groups(Remove(Remove(s, ":"), "@"), Padding(s))

\* Lines 169-177: the record of a method, a password and a server_info.
SsRecord(method, password, server_info) ==
    LET Fill(port) ==
            IF IsRaise(port) THEN port
            ELSE [ConfigData("shadowsocks") EXCEPT
                    !.method = method,
                    !.password = password,
                    !.server = UrlHostname(server_info),
                    !.port = PortOr443(port)]
    IN Fill(UrlPort(server_info))

\* Lines 161-163 and 169-177: the string is split at its first '@', the left
\* side is decoded and split at its first ':'.
ShapeA(url) ==
    LET Pair(server_info, decoded, colon) ==
            IF colon = 0 THEN Raise("ValueError")
            ELSE SsRecord(Before(decoded, colon), After(decoded, colon), server_info)
        Text(server_info, b64) ==
            IF IsRaise(b64) THEN b64
            ELSE Pair(server_info, b64.text, FirstIn(b64.text, {":"}))
        Split(at) ==
            IF at = 0 THEN Raise("ValueError")
            ELSE Text(After(url, at), B64Text(Before(url, at)))
    IN Split(FirstIn(url, {"@"}))

\* Lines 165-167 and 169-177: the whole string is decoded, split at its first
\* ':' and what follows at its first '@'.
ShapeB(url) ==
    LET Whole(method, rest, restAt) ==
            IF restAt = 0 THEN Raise("ValueError")
            ELSE SsRecord(method, Before(rest, restAt), After(rest, restAt))
        Rest(method, rest) == Whole(method, rest, FirstIn(rest, {"@"}))
        Pair(decoded, colon) ==
            IF colon = 0 THEN Raise("ValueError")
            ELSE Rest(Before(decoded, colon), After(decoded, colon))
        Text(b64) ==
            IF IsRaise(b64) THEN b64
            ELSE Pair(b64.text, FirstIn(b64.text, {":"}))
    IN Text(B64Text(url))

\* The body of the try block: the record, or the exception it raises.  With an
\* '@' in the string only the first shape is tried, with none only the second.
ShadowsocksTry(url) ==
    IF FirstIn(url, {"@"}) # 0 THEN ShapeA(url) ELSE ShapeB(url)

parse_shadowsocks(url0) ==
    LET Caught(r) == IF IsRaise(r) THEN ConfigData("shadowsocks") ELSE r
    IN IF ~StartsWith(url0, "ss://") THEN ConfigData("shadowsocks")
       ELSE Caught(ShadowsocksTry(Remove(url0, "ss://")))

\* -------------------------------------------------------- config_to_json

OutputFile == <<"config_output.json">>

\* The parser config_to_json picks from the prefix; "unsupported" for none.
Dispatch(config_url) ==
    IF StartsWith(config_url, "vless://") THEN parse_vless(config_url)
    ELSE IF StartsWith(config_url, "vmess://") THEN parse_vmess(config_url)
    ELSE IF StartsWith(config_url, "trojan://") THEN parse_trojan(config_url)
    ELSE IF StartsWith(config_url, "ss://") THEN parse_shadowsocks(config_url)
    ELSE [error |-> "Unsupported config format"]

IsError(r) == "error" \in DOMAIN r

\* The document built from a parsed record.
XrayConfig(config, inbound_port) ==
    [inbound_port |-> inbound_port,
     protocol |-> config.type,
     network |-> config.network,
     security |-> config.security,
     tlsSettings |-> config.security # <<"none">>,
     address |-> config.server,
     port |-> config.port]

\* The value config_to_json returns, or the exception it raises; write_ok is
\* whether open(output_filename, 'w') succeeds.
config_to_json(config_url, inbound_port, write_ok) ==
    LET Built(config) ==
            IF IsError(config) \/ IsRaise(config) THEN config
            ELSE IF ~write_ok THEN Raise("OSError")
            ELSE XrayConfig(config, inbound_port)
    IN Built(Dispatch(config_url))

\* The files a call of config_to_json that gave `built` has written:
\* output_filename, once the document is built.
config_to_json_writes(built) ==
    IF IsError(built) \/ IsRaise(built) THEN {} ELSE {OutputFile}

\* ================================================================ run

NotYet == [none |-> TRUE]

\* The raw strings the runs are given.
EpGood == <<"vless://", "u", "@", "h", ":", "8">>
EpBlank == <<"vless://", "u", "@", "h", "#n", " ">>
EpBadPort == <<"vless://", "u", "@", "h", ":", "x">>
EpUnsupported == <<"socks://", "h">>
Endpoints == {EpGood, EpBlank, EpBadPort, EpUnsupported}

\* Lines of an input file (or of a subscription body): the endpoints, and a
\* blank line.
FileLines == {EpGood, EpBlank, EpBadPort, <<" ">>}

\* read_configs_from_file, fetch_subscription: every line stripped, the empty
\* ones dropped.
RECURSIVE StripAll(_)
StripAll(lines) ==
    IF Len(lines) = 0 THEN <<>>
    ELSE <<strip(Head(lines))>> \o StripAll(Tail(lines))

read_configs_from_file(lines) == SelectSeq(StripAll(lines), LAMBDA l : l # <<>>)

SeqsUpTo(S, n) == UNION {[1..k -> S] : k \in 0..n}

\* main, lines 546-560: the list from -file or a subscription, or the one
\* string of -config taken as it is.
InputLists ==
    {read_configs_from_file(l) : l \in SeqsUpTo(FileLines, MaxConfigs)}
        \cup {<<c>> : c \in Endpoints}

\* The values of -batch the runs are given.
BatchSizes == {1, 2}

\* What an earlier run may have left in working_configs.txt.
InitialLedgers == {<<>>, <<EpBlank>>}

\* Probe response bodies, as curl's stdout.
IpLiterals == {"203.0.113.7"}
Bodies ==
    {<<>>, <<"203.0.113.7">>, <<"203.0.113.7", "\n">>, <<"<HTML>", "blocked">>, <<"hello">>,
     <<"0xff">>}

\* A task's record: where test_config stands (pc), its port argument, whether
\* process, process_curl and temp_filename are set, what it returned or raised
\* (result), the response body it read (stdout) and which cleanup step the
\* operating system refused (refused).
Unborn == [pc |-> "unborn", port |-> 0, process |-> FALSE, process_curl |-> FALSE,
           temp_filename |-> FALSE, result |-> NotYet, stdout |-> NotYet,
           refused |-> "none"]

Init ==
    /\ configs \in InputLists
    /\ batch_size \in BatchSizes
    /\ start_port = 1080
    /\ main_pc = "start"
    /\ batch_num = 0
    /\ tasks = [g \in 1..Len(configs) |-> Unborn]
    /\ running = {}
    /\ files = {}
    /\ ledger0 \in InitialLedgers
    /\ ledger = ledger0
    /\ all_results = <<>>
    /\ summary = NotYet
    /\ raw = <<>>
    /\ parsed = NotYet
    /\ doc = NotYet

\* ---------------------------------------------------- test_config_batch

\* The chunk an endpoint falls in, and its index in it (both from 0).
ChunkOf(g) == (g - 1) \div batch_size
IndexInChunk(g) == (g - 1) % batch_size
Chunk(b) == {g \in 1..Len(configs) : ChunkOf(g) = b}

total_batches == (Len(configs) + batch_size - 1) \div batch_size

\* An assignment that gives every endpoint of a chunk the start port.
PortOfStart(i) == start_port

\* port = start_port + (i % batch_size)
PortOf(i) == start_port + (i % batch_size)

\* f"config_{port}.json"
temp_filename(port) == <<"config_", port, ".json">>

Engine(g) == <<"xray", g>>
Probe(g) == <<"curl", g>>

\* ------------------------------------------------- test_config: finally

\* What the operating system may refuse during cleanup.
Faults == {"none", "engine", "probe", "artifact"}

\* process.kill() is not guarded: when it raises, the exception leaves
\* test_config and the rest of the block is skipped.
FinallyRaises(t, fault) == t.process /\ fault = "engine"

FinallyRunning(run, g, t, fault) ==
    IF FinallyRaises(t, fault) THEN run
    ELSE (run \ (IF t.process THEN {Engine(g)} ELSE {}))
             \ (IF t.process_curl /\ fault # "probe" THEN {Probe(g)} ELSE {})

\* A cleanup that leaves the artifact in place.
FinallyFilesKept(fls, t, fault) == fls

FinallyFiles(fls, t, fault) ==
    IF FinallyRaises(t, fault) \/ ~t.temp_filename \/ fault = "artifact" THEN fls
    ELSE fls \ {temp_filename(t.port)}

\* The cleanup step that was attempted and refused, "none" when every step
\* attempted was carried out.
Refused(g, t, fault, run, fls) ==
    IF FinallyRaises(t, fault) THEN "engine"
    ELSE IF fault = "probe" /\ t.process_curl /\ Probe(g) \in run THEN "probe"
    ELSE IF fault = "artifact" /\ t.temp_filename /\ temp_filename(t.port) \in fls
    THEN "artifact"
    ELSE "none"

\* test_config is left with `outcome` (a result, or an exception) after the
\* finally block has run on trial record t.
Leave(g, t, outcome, fault, run, fls) ==
    /\ tasks' = [tasks EXCEPT ![g] =
                    [t EXCEPT !.pc = "done",
                              !.refused = Refused(g, t, fault, run, fls),
                              !.result = IF FinallyRaises(t, fault)
                                         THEN Raise("PermissionError")
                                         ELSE outcome]]
    /\ running' = FinallyRunning(run, g, t, fault)
    /\ files' = FinallyFiles(fls, t, fault)

\* --------------------------------------------- test_config: the response

Decode(stdout) ==
    IF \E i \in 1..Len(stdout) : stdout[i] = "0xff" THEN Raise("UnicodeDecodeError")
    ELSE [text |-> stdout]

Lower(tok) == IF tok = "<HTML>" THEN "<html>" ELSE tok

\* "<html" in output.lower() or "<!doctype" in output.lower()
HasHtml(output) ==
    \E i \in 1..Len(output) : Lower(output[i]) \in {"<html>", "<!doctype>"}

\* ipaddress.ip_address(output) does not raise.
IsIp(output) == Len(output) = 1 /\ output[1] \in IpLiterals

\* set(line.strip() for line in f)
LedgerLines(led) == {strip(led[k]) : k \in 1..Len(led)}

\* save_working_config: every failure is swallowed.
save_working_config(config, led, append_ok) ==
    IF config \in LedgerLines(led) THEN led
    ELSE IF append_ok THEN Append(led, config)
    ELSE led

\* Lines 401-449: the result for a response body, and the ledger after it.
\* lenv is what the file system does to the ledger: "ok", "read" (reading
\* working_configs.txt fails) or "append" (appending to it fails).
Classify(config_url, port, stdout, led, lenv) ==
    LET failed(m) == [result |-> [config |-> config_url, status |-> "failed",
                                  message |-> m, port |-> port],
                      ledger |-> led]
        error(m) == [result |-> [config |-> config_url, status |-> "error",
                                 message |-> m, port |-> port],
                     ledger |-> led]
        success(output, e, l) ==
            [result |-> [config |-> config_url, status |-> "success",
                         ip |-> output, port |-> port, already_exists |-> e],
             ledger |-> l]
        Checked(output) ==
            IF HasHtml(output) THEN failed("Received HTML response instead of IP")
            ELSE IF ~IsIp(output) THEN failed("Invalid IP")
            ELSE IF Len(led) > 0 /\ lenv = "read" THEN error("OSError")
            ELSE IF config_url \in LedgerLines(led) THEN success(output, TRUE, led)
            ELSE success(output, FALSE,
                         save_working_config(config_url, led, lenv # "append"))
        Decoded(decoded) ==
            IF IsRaise(decoded) THEN error(decoded.exc)
            ELSE Checked(strip(decoded.text))
    IN IF stdout = <<>> THEN failed("No response from IP check service")
       ELSE Decoded(Decode(stdout))

\* ------------------------------------------------- test_config: steps

\* Lines 365-388, up to the settle delay.  env is what the file system and
\* the operating system do: "output_write" and "artifact_write" fail the two
\* open(..., 'w'), "spawn" fails subprocess.Popen.
TrialStart(g) ==
    /\ main_pc \in {"gather", "failed"}
    /\ tasks[g].pc = "created"
    /\ \E env \in {"ok", "output_write", "artifact_write", "spawn"}, fault \in Faults :
       \E t \in {tasks[g]} :
       \E config \in {config_to_json(configs[g], t.port, env # "output_write")} :
       \E fls \in {files \cup config_to_json_writes(config)} :
       \E named \in {[t EXCEPT !.temp_filename = TRUE]} :
         IF IsRaise(config) THEN Leave(g, t, config, fault, running, fls)
         ELSE IF IsError(config)
         THEN Leave(g, t, [config |-> configs[g], status |-> "error",
                           message |-> config.error], fault, running, fls)
         ELSE IF env = "artifact_write"
         THEN Leave(g, named, Raise("OSError"), fault, running, fls)
         ELSE IF env = "spawn"
         THEN Leave(g, named, Raise("FileNotFoundError"), fault, running,
                    fls \cup {temp_filename(t.port)})
         ELSE /\ tasks' = [tasks EXCEPT ![g] =
                             [named EXCEPT !.pc = "settle", !.process = TRUE]]
              /\ running' = running \cup {Engine(g)}
              /\ files' = fls \cup {temp_filename(t.port)}
    /\ UNCHANGED <<configs, batch_size, start_port, main_pc, batch_num, ledger,
                   ledger0, all_results, summary, parseVars>>

\* Lines 388-398: the settle delay is over and curl is started.
TrialProbeStart(g) ==
    /\ main_pc \in {"gather", "failed"}
    /\ tasks[g].pc = "settle"
    /\ \E ok \in BOOLEAN, fault \in Faults :
       \E t \in {tasks[g]} :
            IF ok
            THEN /\ tasks' = [tasks EXCEPT ![g] =
                                [t EXCEPT !.pc = "probing", !.process_curl = TRUE]]
                 /\ running' = running \cup {Probe(g)}
                 /\ UNCHANGED files
            ELSE Leave(g, t, [config |-> configs[g], status |-> "error",
                              message |-> "FileNotFoundError", port |-> t.port],
                       fault, running, files)
    /\ UNCHANGED <<configs, batch_size, start_port, main_pc, batch_num, ledger,
                   ledger0, all_results, summary, parseVars>>

\* Lines 400-449: communicate() returns curl's output (curl has exited).
TrialProbeDone(g) ==
    /\ main_pc \in {"gather", "failed"}
    /\ tasks[g].pc = "probing"
    /\ \E stdout \in Bodies, lenv \in {"ok", "read", "append"}, fault \in Faults :
       \E t \in {tasks[g]} :
       \E c \in {Classify(configs[g], t.port, stdout, ledger, lenv)} :
            /\ ledger' = c.ledger
            /\ Leave(g, [t EXCEPT !.stdout = [body |-> stdout]], c.result, fault,
                     running \ {Probe(g)}, files)
    /\ UNCHANGED <<configs, batch_size, start_port, main_pc, batch_num, ledger0,
                   all_results, summary, parseVars>>

\* Lines 450-456: wait_for gives up after 15 seconds.
TrialProbeTimeout(g) ==
    /\ main_pc \in {"gather", "failed"}
    /\ tasks[g].pc = "probing"
    /\ \E fault \in Faults :
         Leave(g, tasks[g], [config |-> configs[g], status |-> "failed",
                             message |-> "Connection timeout", port |-> tasks[g].port],
               fault, running, files)
    /\ UNCHANGED <<configs, batch_size, start_port, main_pc, batch_num, ledger,
                   ledger0, all_results, summary, parseVars>>

\* The task is cancelled: CancelledError is raised at the await the trial is
\* suspended at (no except clause catches it) and the finally block runs; a
\* task that never started just ends.
CancelTrial(g) ==
    /\ main_pc \in {"failed", "interrupted"}
    /\ tasks[g].pc \in {"created", "settle", "probing"}
    /\ \E fault \in Faults :
         Leave(g, tasks[g], Raise("CancelledError"), fault, running, files)
    /\ UNCHANGED <<configs, batch_size, start_port, main_pc, batch_num, ledger,
                   ledger0, all_results, summary, parseVars>>

\* ------------------------------------------------------------------ main

\* Lines 562-575.
MainStart ==
    /\ main_pc = "start"
    /\ main_pc' = IF configs = <<>> THEN "done" ELSE "loop"
    /\ UNCHANGED <<configs, batch_size, start_port, batch_num, tasks, running, files,
                   ledger, ledger0, all_results, summary, parseVars>>

\* Lines 577-588 and 483-488: the next chunk's tasks are created.
MainLaunch ==
    /\ main_pc = "loop"
    /\ batch_num < total_batches
    /\ tasks' = [g \in 1..Len(configs) |->
                    IF g \in Chunk(batch_num)
                    THEN [Unborn EXCEPT !.pc = "created",
                                        !.port = PortOf(IndexInChunk(g))]
                    ELSE tasks[g]]
    /\ main_pc' = "gather"
    /\ UNCHANGED <<configs, batch_size, start_port, batch_num, running, files, ledger,
                   ledger0, all_results, summary, parseVars>>

\* A gather that returns as soon as one task of the chunk is done.
GatherReadyAny(b) == \E g \in Chunk(b) : tasks[g].pc = "done"

\* asyncio.gather(*tasks) is ready to return: every task of the chunk is done.
GatherReady(b) == \A g \in Chunk(b) : tasks[g].pc = "done"

\* asyncio.gather(*tasks): the results, in the order of the tasks.
GatherResults(b) ==
    [k \in 1..Cardinality(Chunk(b)) |-> tasks[b * batch_size + k].result]

\* Lines 490-491 and 590-591: gather returns, the results are kept.
GatherReturns ==
    /\ main_pc = "gather"
    /\ GatherReady(batch_num)
    /\ \A g \in Chunk(batch_num) : ~IsRaise(tasks[g].result)
    /\ all_results' = all_results \o GatherResults(batch_num)
    /\ batch_num' = batch_num + 1
    /\ main_pc' = "loop"
    /\ UNCHANGED <<configs, batch_size, start_port, tasks, running, files, ledger,
                   ledger0, summary, parseVars>>

\* Lines 490 and 602-603: gather (return_exceptions is not set) raises the
\* first exception of a task into main, whose except clause ends the run.
GatherRaises ==
    /\ main_pc = "gather"
    /\ \E g \in Chunk(batch_num) : tasks[g].pc = "done" /\ IsRaise(tasks[g].result)
    /\ main_pc' = "failed"
    /\ UNCHANGED <<configs, batch_size, start_port, batch_num, tasks, running, files,
                   ledger, ledger0, all_results, summary, parseVars>>

\* The user interrupts the run while main waits for the chunk.
Interrupt ==
    /\ main_pc = "gather"
    /\ main_pc' = "interrupted"
    /\ UNCHANGED <<configs, batch_size, start_port, batch_num, tasks, running, files,
                   ledger, ledger0, all_results, summary, parseVars>>

Working(results) == {k \in 1..Len(results) : results[k].status = "success"}

\* Lines 593-598.
MainSummary ==
    /\ main_pc = "loop"
    /\ batch_num = total_batches
    /\ summary' = [tested |-> Len(all_results),
                   working |-> Cardinality(Working(all_results))]
    /\ main_pc' = "done"
    /\ UNCHANGED <<configs, batch_size, start_port, batch_num, tasks, running, files,
                   ledger, ledger0, all_results, parseVars>>

Next ==
    \/ MainStart
    \/ MainLaunch
    \/ \E g \in 1..Len(configs) : TrialStart(g)
    \/ \E g \in 1..Len(configs) : TrialProbeStart(g)
    \/ \E g \in 1..Len(configs) : TrialProbeDone(g)
    \/ \E g \in 1..Len(configs) : TrialProbeTimeout(g)
    \/ \E g \in 1..Len(configs) : CancelTrial(g)
    \/ GatherReturns
    \/ GatherRaises
    \/ Interrupt
    \/ MainSummary

Spec == Init /\ [][Next]_vars

\* ======================================================== normalizers

\* The strings the normalizers are given: each scheme followed by every
\* sequence of its tokens up to the bound, and one string of no known scheme.
\* An unaligned payload token ends its base64 text: it is the last token or
\* is followed by '@'.
SsSpelled(b) ==
    \A i \in 1..(Len(b) - 1) : b[i] \in Unaligned => b[i + 1] = "@"

ParseInputs ==
    {<<"vless://">> \o b : b \in SeqsUpTo(UrlTokens, MaxBody)}
        \cup {<<"trojan://">> \o b : b \in SeqsUpTo(UrlTokens, MaxBody)}
        \cup {<<"ss://">> \o b : b \in {c \in SeqsUpTo(SsTokens, MaxBody) : SsSpelled(c)}}
        \cup {<<"vmess://">> \o b : b \in SeqsUpTo(VmessTokens, MaxPayload)}
        \cup {EpUnsupported}

InitParse ==
    /\ raw \in ParseInputs
    /\ parsed = NotYet
    /\ doc = NotYet
    /\ configs = <<>>
    /\ batch_size = 1
    /\ start_port = 1080
    /\ main_pc = "done"
    /\ batch_num = 0
    /\ tasks = <<>>
    /\ running = {}
    /\ files = {}
    /\ ledger0 = <<>>
    /\ ledger = <<>>
    /\ all_results = <<>>
    /\ summary = NotYet

NormalizeVless ==
    /\ parsed = NotYet
    /\ StartsWith(raw, "vless://")
    /\ parsed' = parse_vless(raw)
    /\ UNCHANGED <<raw, doc, runVars>>

NormalizeVmess ==
    /\ parsed = NotYet
    /\ StartsWith(raw, "vmess://")
    /\ parsed' = parse_vmess(raw)
    /\ UNCHANGED <<raw, doc, runVars>>

NormalizeTrojan ==
    /\ parsed = NotYet
    /\ StartsWith(raw, "trojan://")
    /\ parsed' = parse_trojan(raw)
    /\ UNCHANGED <<raw, doc, runVars>>

NormalizeShadowsocks ==
    /\ parsed = NotYet
    /\ StartsWith(raw, "ss://")
    /\ parsed' = parse_shadowsocks(raw)
    /\ UNCHANGED <<raw, doc, runVars>>

\* config_to_json(raw, port) with a writable working directory.
Render ==
    /\ doc = NotYet
    /\ \E port \in {1080, 1081} : doc' = config_to_json(raw, port, TRUE)
    /\ UNCHANGED <<raw, parsed, runVars>>

NextParse ==
    \/ NormalizeVless
    \/ NormalizeVmess
    \/ NormalizeTrojan
    \/ NormalizeShadowsocks
    \/ Render

ParseSpec == InitParse /\ [][NextParse]_vars

\* ============================================================ properties

Trials == 1..Len(configs)

\* A trial is active from its creation until it has left test_config.
Active(g) == tasks[g].pc \in {"created", "settle", "probing"}

Left(g) == tasks[g].pc = "done"

Statuses == {"success", "failed", "error"}

HasStatus(r) == "status" \in DOMAIN r /\ r.status \in Statuses

\* C1: test_config never raises to its caller: a trial that ran to its end
\* (one that was not cancelled) has returned a result whose status is success,
\* failed or error; a failure to spawn the engine gives status error.
C1_NeverRaises ==
    \A g \in Trials :
        Left(g) /\ tasks[g].result # Raise("CancelledError") => HasStatus(tasks[g].result)

\* C2: in a run the user does not interrupt, no error of a trial ends the run:
\* main is never left through its except clause, and a finished run has a
\* summary that counts one result for every endpoint submitted.
C2_RunCompletes ==
    /\ main_pc # "failed"
    /\ main_pc = "done" /\ configs # <<>> =>
          /\ summary # NotYet
          /\ summary.tested = Len(configs)

\* C3: the ledger holds at most one line per distinct raw string, and a
\* successful trial of a string the ledger already held reports
\* already_exists = true.
C3_OneLinePerString ==
    /\ \A i, j \in 1..Len(ledger) : ledger[i] = ledger[j] => i = j
    /\ \A g \in Trials :
          /\ Left(g)
          /\ HasStatus(tasks[g].result)
          /\ tasks[g].result.status = "success"
          /\ \E k \in 1..Len(ledger0) : ledger0[k] = configs[g]
          => tasks[g].result.already_exists

C5_PortsDistinct ==
    /\ \A g \in Trials :
          tasks[g].pc # "unborn" =>
              tasks[g].port = start_port + (((g - 1) % batch_size) % batch_size)
    /\ \A g, h \in Trials :
          g # h /\ Active(g) /\ Active(h) =>
              /\ tasks[g].port # tasks[h].port
              /\ temp_filename(tasks[g].port) # temp_filename(tasks[h].port)

\* Two trials of one chunk wait for their probes at the same time.
C5_Witness ==
    \E g, h \in Trials :
        g # h /\ tasks[g].pc = "probing" /\ tasks[h].pc = "probing"

\* C6: no trial of a later chunk exists before every trial of the earlier
\* chunks has returned a status and left test_config; at most batch_size
\* trials are active; the results kept are those of the endpoints in the order
\* of submission.
C6_ChunksInTurn ==
    /\ \A g, h \in Trials :
          (g - 1) \div batch_size < (h - 1) \div batch_size /\ tasks[h].pc # "unborn"
          => Left(g) /\ HasStatus(tasks[g].result)
    /\ Cardinality({g \in Trials : Active(g)}) <= batch_size
    /\ Len(all_results) <= Len(configs)
    /\ \A k \in 1..Len(all_results) :
          /\ k \in Trials
          /\ all_results[k] = tasks[k].result
          /\ "config" \in DOMAIN all_results[k]
          /\ all_results[k].config = configs[k]

\* The second chunk is under way and the result of the first is kept.
C6_Witness ==
    \E h \in Trials :
        /\ h > 1
        /\ (h - 1) \div batch_size > 0
        /\ Active(h)
        /\ Len(all_results) = h - 1
        /\ all_results[1].config = configs[1]

\* The type a scheme prefix stands for.
TypeOf(scheme) ==
    CASE scheme = "vless://" -> "vless"
      [] scheme = "vmess://" -> "vmess"
      [] scheme = "trojan://" -> "trojan"
      [] scheme = "ss://" -> "shadowsocks"

\* C7: normalization is total: for every string with one of the four prefixes
\* the parser returns a record whose type is that of the scheme, and never
\* raises.
C7_Total ==
    parsed # NotYet =>
        /\ ~IsRaise(parsed)
        /\ parsed.type = TypeOf(raw[1])

\* The vmess payload of raw is base64 of a JSON object.
PayloadIsObject ==
    /\ Len(raw) = 2
    /\ raw[1] = "vmess://"
    /\ ~IsRaise(B64Json(raw[2]))
    /\ B64Json(raw[2]).t = "object"

\* C8: for a vmess string whose payload decodes to a JSON object, the record's
\* security is "tls" exactly when the decoded "tls" value is the string "tls",
\* and "none" otherwise; the rendered streamSettings.security is that field.
C8_VmessSecurity ==
    PayloadIsObject /\ parsed # NotYet /\ ~IsRaise(parsed) =>
        /\ parsed.security = VmessTls(B64Json(raw[2]).m)
        /\ doc # NotYet /\ ~IsRaise(doc) => doc.security = parsed.security

\* C9: for a probe that completed, the status is success exactly when the
\* body (surrounding blanks aside) is an IP literal, and the result carries
\* the address; an empty body is failed "no response", a body with HTML
\* markers failed "received HTML", any other body failed "invalid IP".
C9_Classification ==
    \A g \in Trials :
        Left(g) /\ tasks[g].stdout # NotYet /\ HasStatus(tasks[g].result) =>
            LET body == tasks[g].stdout.body
                r == tasks[g].result
            IN /\ r.status = "success" <=> IsIp(strip(body))
               /\ r.status = "success" => r.ip = strip(body)
               /\ body = <<>> =>
                     r.status = "failed" /\ r.message = "No response from IP check service"
               /\ body # <<>> /\ HasHtml(body) =>
                     r.status = "failed"
                        /\ r.message = "Received HTML response instead of IP"
               /\ body # <<>> /\ ~HasHtml(body) /\ ~IsIp(strip(body)) =>
                     r.status = "failed" /\ r.message = "Invalid IP"

\* C10: rendering writes no file: every file in the working directory is the
\* port-keyed artifact of a trial.
C10_RenderPure ==
    \A f \in files : \E g \in Trials : tasks[g].temp_filename /\ f = temp_filename(tasks[g].port)

\* C11: the three cleanup steps are attempted independently: on the step in
\* which a trial leaves test_config, the probe is gone unless its own kill was
\* refused, the artifact is gone unless its own removal was refused (now or
\* by an earlier trial of the port), and no cleanup failure becomes the
\* trial's outcome.
C11_CleanupIndependent ==
    [][\A g \in Trials :
          ~Left(g) /\ tasks'[g].pc = "done"
          => /\ tasks'[g].refused # "probe" => Probe(g) \notin running'
             /\ (\A h \in Trials : tasks'[h].refused # "artifact")
                   => temp_filename(tasks'[g].port) \notin files'
             /\ tasks'[g].result # Raise("PermissionError")]_vars

\* C12: for every ss:// string parse_shadowsocks gives what the first shape
\* gives when it succeeds, else what the second shape gives when it succeeds,
\* and the empty shadowsocks record only when both fail.
C12_ShapeFallback ==
    StartsWith(raw, "ss://") /\ parsed # NotYet =>
        LET Second(b) == IF IsRaise(b) THEN ConfigData("shadowsocks") ELSE b
            First(a, url) == IF IsRaise(a) THEN Second(ShapeB(url)) ELSE a
            Both(url) == First(ShapeA(url), url)
        IN parsed = Both(Remove(raw, "ss://"))

====
